---- MODULE Spec2Model ----
(***************************************************************************)
(* A model of json-to-struct: the sample accumulator (StructStats /        *)
(* FieldStat), the type resolver (buildTypeFromStats), the struct          *)
(* extraction pass (extractRepeatedStructs), the pairwise Type.Merge and   *)
(* the input dispatch of generator.generate.                               *)
(*                                                                         *)
(* Go strings are TLA+ strings; a character is a string of length one.     *)
(* Go maps are functions whose domain is the set of keys present; a loop   *)
(* `for k := range m` visits the keys in an order the language leaves      *)
(* unspecified, so every such loop is a fold over a sequence `order` and   *)
(* the caller quantifies over all enumerations of the key set.             *)
(* JSON numbers are float64 in the program; the model holds them in        *)
(* tenths (n10 = 25 is 2.5), which is exact for every number it uses.      *)
(***************************************************************************)
EXTENDS Integers, Sequences, FiniteSets, TLC

\* ------------------------------------------------------------------ bounds

\* The largest number of lines of a line-delimited input, and of elements of
\* a top-level array.
MaxSamples == 3

\* The largest number of non-blank lines of a streamed input, and of
\* elements of a streamed array.
MaxStreamLines == 6

\* ---------------------------------------------------------------- strings

\* The characters the model's keys and names are made of, in byte order.
Ascii == << "$", "*", "-", "0", "1", "2", "3", "4", "5", "6", "7", "8", "9", ":",
            "A", "B", "C", "D", "E", "F", "G", "H", "I", "J", "K", "L", "M",
            "N", "O", "P", "Q", "R", "S", "T", "U", "V", "W", "X", "Y", "Z",
            "[", "]", "_",
            "a", "b", "c", "d", "e", "f", "g", "h", "i", "j", "k", "l", "m",
            "n", "o", "p", "q", "r", "s", "t", "u", "v", "w", "x", "y", "z" >>

CharCode(c) == CHOOSE i \in 1..Len(Ascii) : Ascii[i] = c

UpperChars == << "A", "B", "C", "D", "E", "F", "G", "H", "I", "J", "K", "L", "M",
                 "N", "O", "P", "Q", "R", "S", "T", "U", "V", "W", "X", "Y", "Z" >>

LowerChars == << "a", "b", "c", "d", "e", "f", "g", "h", "i", "j", "k", "l", "m",
                 "n", "o", "p", "q", "r", "s", "t", "u", "v", "w", "x", "y", "z" >>

DigitChars == << "0", "1", "2", "3", "4", "5", "6", "7", "8", "9" >>

CharAt(s, i) == SubSeq(s, i, i)

IsIn(c, chars) == \E i \in 1..Len(chars) : chars[i] = c

IsLetter(c) == IsIn(c, UpperChars) \/ IsIn(c, LowerChars)

IsDigit(c) == IsIn(c, DigitChars)

ToUpperChar(c) ==
    IF IsIn(c, LowerChars)
    THEN UpperChars[CHOOSE i \in 1..Len(LowerChars) : LowerChars[i] = c]
    ELSE c

ToLowerChar(c) ==
    IF IsIn(c, UpperChars)
    THEN LowerChars[CHOOSE i \in 1..Len(UpperChars) : UpperChars[i] = c]
    ELSE c

RECURSIVE ToUpper(_)
ToUpper(s) == IF Len(s) = 0 THEN "" ELSE ToUpperChar(CharAt(s, 1)) \o ToUpper(Tail(s))

RECURSIVE ToLower(_)
ToLower(s) == IF Len(s) = 0 THEN "" ELSE ToLowerChar(CharAt(s, 1)) \o ToLower(Tail(s))

HasPrefix(s, p) == Len(s) >= Len(p) /\ SubSeq(s, 1, Len(p)) = p

HasSuffix(s, p) == Len(s) >= Len(p) /\ SubSeq(s, Len(s) - Len(p) + 1, Len(s)) = p

\* strings.Trim(s, "*"): the leading and the trailing stars removed.
RECURSIVE TrimStar(_)
TrimStar(s) ==
    IF Len(s) = 0 THEN s
    ELSE IF CharAt(s, 1) = "*" THEN TrimStar(Tail(s))
    ELSE IF CharAt(s, Len(s)) = "*" THEN TrimStar(SubSeq(s, 1, Len(s) - 1))
    ELSE s

\* The byte-wise order of Go's string comparison.
RECURSIVE StrLess(_, _)
StrLess(a, b) ==
    IF Len(b) = 0 THEN FALSE
    ELSE IF Len(a) = 0 THEN TRUE
    ELSE IF CharAt(a, 1) = CharAt(b, 1) THEN StrLess(Tail(a), Tail(b))
    ELSE CharCode(CharAt(a, 1)) < CharCode(CharAt(b, 1))

\* strings.Split(s, sep) for a one-character separator.
RECURSIVE SplitOn(_, _)
SplitOn(s, sep) ==
    IF \A i \in 1..Len(s) : CharAt(s, i) # sep THEN << s >>
    ELSE LET i == CHOOSE j \in 1..Len(s) :
                     CharAt(s, j) = sep /\ \A h \in 1..(j - 1) : CharAt(s, h) # sep
         IN  << SubSeq(s, 1, i - 1) >> \o SplitOn(SubSeq(s, i + 1, Len(s)), sep)

RECURSIVE JoinWith(_, _)
JoinWith(parts, sep) ==
    IF Len(parts) = 0 THEN ""
    ELSE IF Len(parts) = 1 THEN parts[1]
    ELSE parts[1] \o sep \o JoinWith(Tail(parts), sep)

\* fmt.Sprintf("%d", n)
RECURSIVE NatToStr(_)
NatToStr(n) ==
    IF n < 10 THEN DigitChars[n + 1]
    ELSE NatToStr(n \div 10) \o DigitChars[(n % 10) + 1]

IntToStr(n) == IF n < 0 THEN "-" \o NatToStr(0 - n) ELSE NatToStr(n)

\* All enumerations of a finite set: the orders in which a range loop may
\* visit the keys of a map.
Perms(S) ==
    { p \in [1..Cardinality(S) -> S] :
        \A i, j \in 1..Cardinality(S) : i # j => p[i] # p[j] }

\* ------------------------------------------------------------------- maps

MapGet(m, k, default) == IF k \in DOMAIN m THEN m[k] ELSE default

MapPut(m, k, v) == [x \in (DOMAIN m) \cup {k} |-> IF x = k THEN v ELSE m[x]]

EmptyMap == << >>

\* ------------------------------------------------------------ JSON values

JNull == [k |-> "null"]

JBool(b) == [k |-> "bool", b |-> b]

JNum(n10) == [k |-> "num", n10 |-> n10]

JStr(s) == [k |-> "str", s |-> s]

JArr(e) == [k |-> "arr", e |-> e]

JObj(f) == [k |-> "obj", f |-> f]

\* A line that is not JSON at all.
Malformed == [k |-> "bad"]

\* ------------------------------------------------- field-name normalizer

uppercaseFixups == {"id", "url"}

TitlePart(p) ==
    IF Len(p) > 0
    THEN ToUpper(SubSeq(p, 1, 1)) \o ToLower(SubSeq(p, 2, Len(p)))
    ELSE p

FixLastPart(parts) ==
    IF Len(parts) > 0 /\ ToLower(parts[Len(parts)]) \in uppercaseFixups
    THEN [parts EXCEPT ![Len(parts)] = ToUpper(parts[Len(parts)])]
    ELSE parts

RECURSIVE ReplaceRunes(_, _)
ReplaceRunes(s, i) ==
    IF Len(s) = 0 THEN ""
    ELSE LET c  == CharAt(s, 1)
             ok == IF i = 0 THEN IsLetter(c) ELSE IsLetter(c) \/ IsDigit(c)
         IN  (IF ok THEN c ELSE "_") \o ReplaceRunes(Tail(s), i + 1)

\* generator.fmtFieldName. The fieldNameCache only memoizes this function.
fmtFieldName(s) ==
    LET split == SplitOn(s, "_")
        parts == FixLastPart([i \in 1..Len(split) |-> TitlePart(split[i])])
    IN  ReplaceRunes(JoinWith(parts, ""), 0)

\* ------------------------------------------------------ sample accumulator

\* The cap of the cardinality probe for string values.
ValueCap == 100

NewStructStats == [Fields |-> EmptyMap, TotalLines |-> 0, FieldOrder |-> << >>]

NewFieldStat(fieldName, key) ==
    [Name |-> fieldName, JsonName |-> key, Types |-> EmptyMap, TotalCount |-> 0,
     IsArray |-> EmptyMap, NestedObjs |-> << >>, Values |-> EmptyMap,
     NumericVals |-> << >>, ValueOrder |-> << >>]

getGoType(value) ==
    CASE value.k = "null" -> "nil"
      [] value.k = "bool" -> "bool"
      [] value.k = "num"  -> "float64"
      [] value.k = "str"  -> "string"
      [] value.k = "obj"  -> "struct"
      [] value.k = "arr"  -> "[]any"

IncCount(m, k) == MapPut(m, k, MapGet(m, k, 0) + 1)

\* int(v) of a float64 held in tenths: truncation toward zero.
TruncInt(n10) == IF n10 >= 0 THEN n10 \div 10 ELSE 0 - ((0 - n10) \div 10)

\* The cardinality probe: Values[valStr]++ with the first-seen order.
TrackValue(field, valStr) ==
    [field EXCEPT
        !.ValueOrder = IF valStr \in DOMAIN field.Values THEN @ ELSE Append(@, valStr),
        !.Values     = IncCount(@, valStr)]

\* The switch of ProcessValue on the kind of the value, applied to the
\* field's statistics after TotalCount++.
ObserveValue(field, value) ==
    CASE value.k = "arr" ->
            IF Len(value.e) > 0
            THEN LET elementType == getGoType(value.e[1])
                 IN  [field EXCEPT
                        !.Types      = IncCount(@, elementType),
                        !.IsArray    = MapPut(@, elementType, TRUE),
                        !.NestedObjs = IF elementType = "struct"
                                       THEN Append(@, value.e[1]) ELSE @]
            ELSE [field EXCEPT !.Types   = IncCount(@, "any"),
                               !.IsArray = MapPut(@, "any", TRUE)]
      [] value.k = "obj" ->
            [field EXCEPT !.Types      = IncCount(@, "struct"),
                          !.NestedObjs = Append(@, value)]
      [] value.k = "str" ->
            LET f1 == [field EXCEPT !.Types = IncCount(@, "string")]
            IN  IF Cardinality(DOMAIN f1.Values) < ValueCap
                THEN TrackValue(f1, value.s) ELSE f1
      [] value.k = "num" ->
            LET f1 == [field EXCEPT !.Types       = IncCount(@, "float64"),
                                    !.NumericVals = Append(@, value.n10)]
            IN  IF value.n10 = TruncInt(value.n10) * 10
                   /\ value.n10 >= -1000 /\ value.n10 <= 1000
                THEN TrackValue(f1, IntToStr(TruncInt(value.n10))) ELSE f1
      [] value.k = "bool" ->
            TrackValue([field EXCEPT !.Types = IncCount(@, "bool")],
                       IF value.b THEN "true" ELSE "false")
      [] value.k = "null" ->
            [field EXCEPT !.Types = IncCount(@, "nil")]

\* ProcessValue with TotalCount set to the lines read so far in place of
\* TotalCount++: the count then depends on the order of the samples.
ProcessValueLineCount(s, key, value) ==
    LET fieldName == fmtFieldName(key)
        s1 == IF fieldName \in DOMAIN s.Fields THEN s
              ELSE [s EXCEPT
                      !.Fields     = MapPut(@, fieldName, NewFieldStat(fieldName, key)),
                      !.FieldOrder = Append(@, fieldName)]
        field == [s1.Fields[fieldName] EXCEPT !.TotalCount = s.TotalLines]
    IN  [s1 EXCEPT !.Fields = MapPut(@, fieldName, ObserveValue(field, value))]

\* ProcessValue with the name appended to FieldOrder at every call, not at
\* the first one only.
ProcessValueAppends(s, key, value) ==
    LET fieldName == fmtFieldName(key)
        s1 == [s EXCEPT
                 !.Fields     = IF fieldName \in DOMAIN s.Fields THEN @
                                ELSE MapPut(@, fieldName, NewFieldStat(fieldName, key)),
                 !.FieldOrder = Append(@, fieldName)]
        field == [s1.Fields[fieldName] EXCEPT !.TotalCount = @ + 1]
    IN  [s1 EXCEPT !.Fields = MapPut(@, fieldName, ObserveValue(field, value))]

\* StructStats.ProcessValue
ProcessValue(s, key, value) ==
    LET fieldName == fmtFieldName(key)
        s1 == IF fieldName \in DOMAIN s.Fields THEN s
              ELSE [s EXCEPT
                      !.Fields     = MapPut(@, fieldName, NewFieldStat(fieldName, key)),
                      !.FieldOrder = Append(@, fieldName)]
        field == [s1.Fields[fieldName] EXCEPT !.TotalCount = @ + 1]
    IN  [s1 EXCEPT !.Fields = MapPut(@, fieldName, ObserveValue(field, value))]

RECURSIVE ProcessKeys(_, _, _)
ProcessKeys(s, data, order) ==
    IF Len(order) = 0 THEN s
    ELSE ProcessKeys(ProcessValue(s, Head(order), data[Head(order)]), data, Tail(order))

\* ProcessJSON with a sample that has no keys passed over.
ProcessJSONNonEmpty(s, data, order) ==
    IF DOMAIN data = {} THEN s
    ELSE ProcessKeys([s EXCEPT !.TotalLines = @ + 1], data, order)

\* StructStats.ProcessJSON, its range loop visiting the keys of data in
\* the given order.
ProcessJSON(s, data, order) ==
    ProcessKeys([s EXCEPT !.TotalLines = @ + 1], data, order)

\* The statistics ProcessJSON may leave, over every visiting order.
ProcessJSONAny(s, data) == { ProcessJSON(s, data, o) : o \in Perms(DOMAIN data) }

\* ---------------------------------------------------------- type resolver

\* The name of the root type: the default of the -name flag.
TypeName == "Foo"

\* The field ordering strategies; any other value sorts as "alphabetical".
FieldOrders == {"alphabetical", "encounter", "common-first", "rare-first", ""}

\* A Type node. Config and Stat are pointers to the generator and to the
\* field's FieldStat; they are read by the renderer only and are left out.
NewType(name, type, repeated, tags, children) ==
    [Name |-> name, Type |-> type, Repeated |-> repeated, Tags |-> tags,
     Children |-> children, ExtractedTypeName |-> ""]

\* The loop of GetMostCommonType over f.Types, visited in the given order:
\* the running (maxType, maxCount, hasNil).
RECURSIVE MostCommonLoop(_, _, _)
MostCommonLoop(types, order, acc) ==
    IF Len(order) = 0 THEN acc
    ELSE LET typeName == Head(order)
             count    == types[typeName]
             next     == IF typeName = "nil" THEN [acc EXCEPT !.hasNil = TRUE]
                         ELSE IF count > acc.maxCount
                              THEN [acc EXCEPT !.maxCount = count, !.maxType = typeName]
                              ELSE acc
         IN  MostCommonLoop(types, Tail(order), next)

\* GetMostCommonType without the nullable marker.
GetMostCommonTypeNoStar(f, order) ==
    LET r == MostCommonLoop(f.Types, order,
                            [maxType |-> "", maxCount |-> 0, hasNil |-> FALSE])
    IN  IF r.maxType = "" THEN "any" ELSE r.maxType

\* FieldStat.GetMostCommonType for one visiting order of f.Types.
GetMostCommonTypeIn(f, order) ==
    LET r == MostCommonLoop(f.Types, order,
                            [maxType |-> "", maxCount |-> 0, hasNil |-> FALSE])
    IN  IF r.hasNil /\ r.maxType # "" THEN "*" \o r.maxType
        ELSE IF r.maxType = "" THEN "any"
        ELSE r.maxType

\* The results GetMostCommonType may return.
GetMostCommonType(f) == { GetMostCommonTypeIn(f, o) : o \in Perms(DOMAIN f.Types) }

\* The loop of buildTypeFromStats over stat.IsArray: the first type, in the
\* visiting order, that was seen as an array; "" when there is none.
RECURSIVE ArrayTypeLoop(_, _)
ArrayTypeLoop(stat, order) ==
    IF Len(order) = 0 THEN ""
    ELSE IF MapGet(stat.Types, Head(order), 0) > 0 /\ stat.IsArray[Head(order)]
         THEN Head(order)
         ELSE ArrayTypeLoop(stat, Tail(order))

ArrayTypes(stat) == { ArrayTypeLoop(stat, o) : o \in Perms(DOMAIN stat.IsArray) }

\* The index of a name in FieldOrder (orderMap).
OrderIndex(stats, name) ==
    CHOOSE i \in 1..Len(stats.FieldOrder) : stats.FieldOrder[i] = name

\* The less function with the counts compared and equal counts left in
\* any order.
FieldLessNoTieBreak(stats, mode, a, b) ==
    LET fa == stats.Fields[a]
        fb == stats.Fields[b]
    IN  CASE mode = "encounter" -> OrderIndex(stats, a) < OrderIndex(stats, b)
          [] mode = "rare-first" -> fa.TotalCount < fb.TotalCount
          [] mode = "common-first" -> fa.TotalCount > fb.TotalCount
          [] OTHER -> StrLess(ToLower(fa.JsonName), ToLower(fb.JsonName))

\* The less function of the sort, by field ordering strategy.
FieldLess(stats, mode, a, b) ==
    LET fa == stats.Fields[a]
        fb == stats.Fields[b]
        oa == OrderIndex(stats, a)
        ob == OrderIndex(stats, b)
    IN  CASE mode = "encounter" -> oa < ob
          [] mode = "rare-first" ->
                IF fa.TotalCount # fb.TotalCount THEN fa.TotalCount < fb.TotalCount
                ELSE oa < ob
          [] mode = "common-first" ->
                IF fa.TotalCount # fb.TotalCount THEN fa.TotalCount > fb.TotalCount
                ELSE oa < ob
          [] OTHER -> StrLess(ToLower(fa.JsonName), ToLower(fb.JsonName))

\* The orders sort.Slice may leave the fields in: the slice is filled by a
\* range over stats.Fields and the sort is not stable, so every arrangement
\* that the less function does not contradict is possible.
SortedFieldNames(stats, mode) ==
    { p \in Perms(DOMAIN stats.Fields) :
        \A i, j \in 1..Len(p) : i < j => ~FieldLess(stats, mode, p[j], p[i]) }

RECURSIVE SeqProduct(_)
SeqProduct(sets) ==
    IF Len(sets) = 0 THEN { << >> }
    ELSE { << h >> \o t : h \in sets[1], t \in SeqProduct(Tail(sets)) }

\* The statistics mergeNestedObjects may gather from the nested objects.
RECURSIVE NestedStats(_, _)
NestedStats(statsSet, nestedObjs) ==
    IF Len(nestedObjs) = 0 THEN statsSet
    ELSE NestedStats(UNION { ProcessJSONAny(s, Head(nestedObjs).f) : s \in statsSet },
                     Tail(nestedObjs))

RECURSIVE buildTypeFromStats(_, _)
RECURSIVE mergeNestedObjects(_, _)

\* The body of the loop of buildTypeFromStats for one field: the child
\* nodes it may append.
BuildChild(stat, mode) ==
    UNION { UNION {
        LET isArray == arrayType # ""
            type    == IF isArray THEN arrayType ELSE mostCommonType
            tags    == IF stat.Name # stat.JsonName
                       THEN ("json" :> stat.JsonName) ELSE EmptyMap
        IN  IF type = "struct" /\ Len(stat.NestedObjs) > 0
            THEN { NewType(stat.Name, "struct", isArray, tags, children) :
                     children \in mergeNestedObjects(stat.NestedObjs, mode) }
            ELSE { NewType(stat.Name, type, isArray, tags, << >>) }
        : arrayType \in ArrayTypes(stat) }
        : mostCommonType \in GetMostCommonType(stat) }

\* generator.buildTypeFromStats: the trees it may return.
buildTypeFromStats(stats, mode) ==
    UNION { { NewType(TypeName, "struct", FALSE, EmptyMap, children) :
                children \in SeqProduct([i \in 1..Len(fieldNames) |->
                                BuildChild(stats.Fields[fieldNames[i]], mode)]) }
            : fieldNames \in SortedFieldNames(stats, mode) }

\* generator.mergeNestedObjects: the child lists it may return.
mergeNestedObjects(nestedObjs, mode) ==
    IF Len(nestedObjs) = 0 THEN { << >> }
    ELSE UNION { { t.Children : t \in buildTypeFromStats(ns, mode) }
                 : ns \in NestedStats({NewStructStats}, nestedObjs) }

\* ------------------------------------------------------- struct extraction

\* sort.Strings
RECURSIVE InsertSorted(_, _)
InsertSorted(sorted, x) ==
    IF Len(sorted) = 0 THEN << x >>
    ELSE IF StrLess(x, Head(sorted)) THEN << x >> \o sorted
    ELSE << Head(sorted) >> \o InsertSorted(Tail(sorted), x)

RECURSIVE SortStrings(_)
SortStrings(strs) ==
    IF Len(strs) = 0 THEN << >>
    ELSE InsertSorted(SortStrings(Tail(strs)), Head(strs))

\* A node of the tree is a Go object reached through pointers; the model
\* names it by its path from the root (the child indices) in the tree that
\* extractRepeatedStructs is given.
RECURSIVE NodeAt(_, _)
NodeAt(t, path) ==
    IF Len(path) = 0 THEN t ELSE NodeAt(t.Children[Head(path)], Tail(path))

RECURSIVE ConcatAll(_)
ConcatAll(seqs) == IF Len(seqs) = 0 THEN << >> ELSE Head(seqs) \o ConcatAll(Tail(seqs))

\* The nodes in the order collectStructSignatures visits them.
RECURSIVE PreOrder(_, _)
PreOrder(t, path) ==
    << path >> \o ConcatAll([i \in 1..Len(t.Children) |->
                                PreOrder(t.Children[i], Append(path, i))])

\* generator.getStructSignature
getStructSignature(t) ==
    IF (t.Type # "struct" /\ t.Type # "*struct") \/ Len(t.Children) = 0 THEN ""
    ELSE LET fields == [i \in 1..Len(t.Children) |->
                          LET child    == t.Children[i]
                              fieldSig == child.Name \o ":" \o child.Type
                          IN  IF child.Repeated THEN "[]" \o fieldSig ELSE fieldSig]
         IN  IF t.Type # "*struct" /\ Len(fields) < 3 THEN ""
             ELSE JoinWith(SortStrings(fields), ",")

AppendTo(m, sig, path) == MapPut(m, sig, Append(MapGet(m, sig, << >>), path))

\* What collectStructSignatures adds to structMap at one node.
CollectNode(m, t, path) ==
    LET isStruct == (t.Type = "struct" \/ t.Type = "*struct") /\ Len(t.Children) > 0
        sig      == getStructSignature(t)
        m1       == IF isStruct /\ sig # "" THEN AppendTo(m, sig, path) ELSE m
    IN  IF t.Type = "*struct" /\ Len(t.Children) > 0
        THEN AppendTo(m1, sig \o ":nullable", path)
        ELSE m1

RECURSIVE CollectLoop(_, _, _)
CollectLoop(m, root, paths) ==
    IF Len(paths) = 0 THEN m
    ELSE CollectLoop(CollectNode(m, NodeAt(root, Head(paths)), Head(paths)),
                     root, Tail(paths))

\* generator.collectStructSignatures from the root: signature -> the nodes
\* that have it, in visiting order.
collectStructSignatures(root) == CollectLoop(EmptyMap, root, PreOrder(root, << >>))

\* The objects of the tree: path -> the node, its children held as paths.
HeapOf(root) ==
    LET paths == PreOrder(root, << >>)
    IN  [p \in { paths[i] : i \in 1..Len(paths) } |->
            [NodeAt(root, p) EXCEPT
                !.Children = [i \in 1..Len(@) |-> Append(p, i)]]]

\* The tree below an object, as the objects now are (Type.Copy reads it).
RECURSIVE TreeOf(_, _)
TreeOf(heap, path) ==
    [heap[path] EXCEPT !.Children = [i \in 1..Len(@) |-> TreeOf(heap, @[i])]]

\* hasCommonPrefix: at least 80% of the fields have the prefix.
hasCommonPrefix(fields, prefix) ==
    IF Len(fields) = 0 THEN FALSE
    ELSE LET count == Cardinality({ i \in 1..Len(fields) :
                                      HasPrefix(fields[i].Name, prefix) })
         IN  count * 10 >= Len(fields) * 8

\* fmt.Sprintf("%X", md5.Sum(signature)[:4]). The digest is taken to be
\* free of collisions and is written as the signature it is the digest of.
Checksum(signature) == signature

\* generator.generateStructName
generateStructName(t, signature) ==
    LET prefix == IF TypeName = "" THEN "Foo" ELSE TypeName
    IN  IF Len(t.Children) > 0 /\ hasCommonPrefix(t.Children, "St")
        THEN prefix \o "Stat"
        ELSE prefix \o "Struct" \o Checksum(signature)

\* generator.createExtractedType on the tree below an object; NoType is nil.
NoType == [Name |-> "", Type |-> "", Repeated |-> FALSE, Tags |-> EmptyMap,
           Children |-> << >>, ExtractedTypeName |-> ""]

createExtractedType(t, signature) ==
    IF t.Type # "struct" /\ t.Type # "*struct" THEN NoType
    ELSE NewType(generateStructName(t, signature), "struct", FALSE, EmptyMap, t.Children)

\* The rewriting with the children kept beside the reference.
ReplaceKeepsChildren(node, name) ==
    IF node.Type = "*struct"
    THEN [node EXCEPT !.ExtractedTypeName = "*" \o name, !.Type = "*" \o name]
    ELSE [node EXCEPT !.ExtractedTypeName = name, !.Type = name]

\* The rewriting of one member of a group into a reference.
ReplaceWithReference(node, name) ==
    IF node.Type = "*struct"
    THEN [node EXCEPT !.ExtractedTypeName = "*" \o name, !.Type = "*" \o name,
                      !.Children = << >>]
    ELSE [node EXCEPT !.ExtractedTypeName = name, !.Type = name,
                      !.Children = << >>]

\* The rewriting stopped after the first member of the group.
ReplaceFirst(heap, types, name) ==
    IF Len(types) = 0 THEN heap
    ELSE [heap EXCEPT ![Head(types)] = ReplaceWithReference(@, name)]

RECURSIVE ReplaceAll(_, _, _)
ReplaceAll(heap, types, name) ==
    IF Len(types) = 0 THEN heap
    ELSE ReplaceAll([heap EXCEPT ![Head(types)] = ReplaceWithReference(@, name)],
                    Tail(types), name)

\* The body of the loop with every group extracted, a group of one too.
ExtractGroupAlways(st, structMap, signature) ==
    LET types     == structMap[signature]
        extracted == NewType(generateStructName(TreeOf(st.heap, types[1]), signature),
                             "struct", FALSE, EmptyMap,
                             TreeOf(st.heap, types[1]).Children)
    IN  [heap           |-> ReplaceAll(st.heap, types, extracted.Name),
         extractedTypes |-> MapPut(st.extractedTypes, extracted.Name, extracted)]

\* The body of the loop of extractRepeatedStructs for one signature; st is
\* the objects of the tree and the extracted types so far.
ExtractGroup(st, structMap, signature) ==
    LET types         == structMap[signature]
        shouldExtract == Len(types) > 1 \/ HasSuffix(signature, ":nullable")
        extracted     == createExtractedType(TreeOf(st.heap, types[1]), signature)
    IN  IF shouldExtract /\ extracted # NoType
        THEN [heap           |-> ReplaceAll(st.heap, types, extracted.Name),
              extractedTypes |-> MapPut(st.extractedTypes, extracted.Name, extracted)]
        ELSE st

RECURSIVE ExtractLoop(_, _, _)
ExtractLoop(st, structMap, order) ==
    IF Len(order) = 0 THEN st
    ELSE ExtractLoop(ExtractGroup(st, structMap, Head(order)), structMap, Tail(order))

\* generator.extractRepeatedStructs with its range loop visiting the
\* signatures in the given order: the rewritten root, the objects of the
\* tree it was given (those no longer reachable from the root too) and
\* g.extractedTypes.
extractRepeatedStructs(root, order) ==
    LET st == ExtractLoop([heap |-> HeapOf(root), extractedTypes |-> EmptyMap],
                          collectStructSignatures(root), order)
    IN  [typ |-> TreeOf(st.heap, << >>), objs |-> st.heap,
         extractedTypes |-> st.extractedTypes]

\* The results extractRepeatedStructs may leave.
extractRepeatedStructsAny(root) ==
    { extractRepeatedStructs(root, o) : o \in Perms(DOMAIN collectStructSignatures(root)) }

\* ------------------------------------------------------------- the inputs

ObjPQR1 == JObj(("p" :> JNum(10)) @@ ("q" :> JNum(20)) @@ ("r" :> JNum(30)))

ObjPQR9 == JObj(("p" :> JNum(90)) @@ ("q" :> JNum(80)) @@ ("r" :> JNum(70)))

ObjPT == JObj(("p" :> JStr("s")) @@ ("t" :> JBool(TRUE)))

\* The kinds of input the model runs generate on. Each is the set of values
\* the elements of a top-level array and the lines of a line-delimited
\* input are drawn from (a line may also be text that is not JSON).
ScalarFeed ==
    { JObj(("a" :> JNum(10)) @@ ("b" :> JNull)),
      JObj(("a" :> JNum(25)) @@ ("b" :> JStr("x"))),
      JObj(("a" :> JStr("s")) @@ ("b" :> JNull)) }

ArrayFeed ==
    { JObj(("a" :> JStr("s"))),
      JObj(("a" :> JArr(<< JStr("s") >>))),
      JObj(("a" :> JArr(<< JNum(10), JStr("s") >>))),
      JObj(("a" :> JArr(<< >>))) }

RecordFeed ==
    { JObj(("x" :> ObjPQR1)),
      JObj(("x" :> ObjPQR9)),
      JObj(("x" :> JNull)),
      JObj(("x" :> JArr(<< ObjPT >>))) }

PathsFeed ==
    { JObj(("x" :> ObjPQR1) @@ ("w" :> JObj(("y" :> ObjPQR9)))),
      JObj(("x" :> ObjPQR9)) }

NoiseFeed ==
    { JObj(("user_id" :> JNum(10))), JNull, JNum(10), Malformed }

\* The empty object, with a value that is no object.
EmptyFeed == { JObj(EmptyMap), JNum(10) }

\* An object with two keys that fmtFieldName gives one field name.
CollideFeed == { JObj(("user_id" :> JNum(10)) @@ ("User_Id" :> JStr("s"))) }

Feeds == { ScalarFeed, ArrayFeed, RecordFeed, PathsFeed, NoiseFeed, EmptyFeed,
           CollideFeed }

\* ------------------------------------------------------------- Type.Merge

\* Type.Merge: the receiver t after t.Merge(t2), which leaves t2 as it was.
RECURSIVE Merge(_, _)
RECURSIVE MergeChildren(_, _, _)

\* fields[name]: the last of the first n children that has the name, 0 if
\* none has it.
LastIndexOf(children, n, name) ==
    IF \E i \in 1..n : children[i].Name = name
    THEN CHOOSE i \in 1..n :
             /\ children[i].Name = name
             /\ \A j \in (i + 1)..n : children[j].Name # name
    ELSE 0

\* The second loop with the children that only t2 has left out.
MergeChildrenShared(children, n, others) ==
    [i \in 1..Len(children) |->
        IF \E j \in 1..Len(others) : others[j].Name = children[i].Name
        THEN Merge(children[i],
                   others[CHOOSE j \in 1..Len(others) :
                              others[j].Name = children[i].Name])
        ELSE children[i]]

\* The second loop of Merge: the fields map holds the n children t had on
\* entry, which the children appended by the loop do not join.
MergeChildren(children, n, others) ==
    IF Len(others) = 0 THEN children
    ELSE LET typ == Head(others)
             i   == LastIndexOf(children, n, typ.Name)
         IN  IF i = 0
             THEN MergeChildren(Append(children, typ), n, Tail(others))
             ELSE MergeChildren([children EXCEPT ![i] = Merge(@, typ)],
                                n, Tail(others))

Merge(t, t2) ==
    IF TrimStar(t.Type) # TrimStar(t2.Type)
    THEN IF t.Type = "nil"
         THEN IF t2.Type = "struct"
              THEN [t EXCEPT !.Type = "*struct", !.Children = t2.Children]
              ELSE [t EXCEPT !.Type = "*" \o TrimStar(t2.Type)]
         ELSE IF t2.Type = "nil"
         THEN IF t.Type = "struct"
              THEN [t EXCEPT !.Type = "*struct"]
              ELSE [t EXCEPT !.Type = "*" \o TrimStar(t.Type)]
         ELSE [t EXCEPT !.Type = "any"]
    ELSE [t EXCEPT !.Children = MergeChildren(@, Len(t.Children), t2.Children)]

\* ------------------------------------------------------ generator.generate

VARIABLES
    feed,           \* the values the input's elements or lines are drawn from
    pc,             \* where generate is: "start", "array", "lines", "accumulated",
                    \* "resolved", "extracted", "done", "failed"; "merge" when
                    \* the program run is a merge of two types
    cfg,            \* the generator's flags: FieldOrder, ExtractStructs
    format,         \* what the input turned out to be: "object", "array", "lines"
    count,          \* elements or lines of the input read so far
    sawBad,         \* a line that is not JSON was read
    hasValidJSON,   \* the flag of the line-delimited fallback
    stats,          \* g.stats
    processed,      \* history: the bag of objects given to ProcessJSON
    resolved,       \* the tree buildTypeFromStats returned
    typ,            \* the tree after extractRepeatedStructs
    objs,           \* the objects of the tree after extractRepeatedStructs
    extractedTypes, \* g.extractedTypes
    err,            \* the error generate returns, "" for none
    mA, mB,         \* the two types given to Type.Merge
    mAB, mBA,       \* mA after mA.Merge(mB), mB after mB.Merge(mA)
    mC,             \* a third type, for two merges in a row
    mL, mR,         \* (mA merged with mB) merged with mC, and
                    \* mA merged with (mB merged with mC)
    leading,        \* generateStream: the input's first byte is white space
    offered,        \* history: the lines of the input of generateStream that
                    \* are JSON objects, as a bag
    total,          \* generateStreamFromArray: len(array); for one field
                    \* alone, the calls of ProcessValue after the fill
    shown,          \* lastOutput, as the tree it renders
    display,        \* the counters of the last call of displayStreamOutput
    hist,           \* history: the samples given to ProcessJSON in turn, each
                    \* with the order its keys were visited in
    fmtCall         \* a call of fmtFieldName: its key and, once it has
                    \* returned, its result

inputVars  == << feed, cfg, format, count, sawBad, hasValidJSON >>
outputVars == << resolved, typ, objs, extractedTypes >>
mergeVars  == << mA, mB, mAB, mBA, mC, mL, mR >>
streamVars == << leading, offered, total, shown, display, hist >>
nameVars   == << fmtCall >>

vars == << feed, pc, cfg, format, count, sawBad, hasValidJSON, stats, processed,
           resolved, typ, objs, extractedTypes, err, mA, mB, mAB, mBA,
           mC, mL, mR, leading, offered, total, shown, display, hist, fmtCall >>

Configs == [FieldOrder : FieldOrders, ExtractStructs : BOOLEAN]

BagAdd(bag, x) == MapPut(bag, x, MapGet(bag, x, 0) + 1)

\* The generator before generate has read anything.
InitGenerator ==
    /\ count = 0
    /\ format = ""
    /\ sawBad = FALSE
    /\ hasValidJSON = FALSE
    /\ stats = NewStructStats
    /\ processed = EmptyMap
    /\ resolved = NoType
    /\ typ = NoType
    /\ objs = EmptyMap
    /\ extractedTypes = EmptyMap
    /\ err = ""
    /\ total = 0
    /\ offered = EmptyMap
    /\ shown = NoType
    /\ display = [calls |-> 0, current |-> 0, total |-> 0]
    /\ hist = << >>

\* No call of fmtFieldName of its own.
NoCall == [key |-> "", returned |-> FALSE, name |-> ""]

Init ==
    /\ feed \in Feeds
    /\ pc = "start"
    /\ cfg \in Configs
    /\ InitGenerator
    /\ mA = NoType /\ mB = NoType /\ mAB = NoType /\ mBA = NoType
    /\ mC = NoType /\ mL = NoType /\ mR = NoType
    /\ leading = FALSE
    /\ fmtCall = NoCall

\* stats.ProcessJSON(obj, g) with some visiting order of the keys.
Accumulate(data) ==
    /\ \E order \in Perms(DOMAIN data) : stats' = ProcessJSON(stats, data, order)
    /\ processed' = BagAdd(processed, data)

Fail(message) ==
    /\ pc' = "failed"
    /\ err' = message

\* The input is empty or blank.
NoInput ==
    /\ pc = "start"
    /\ Fail("no input provided")
    /\ UNCHANGED << inputVars, stats, processed, outputVars, mergeVars, streamVars, nameVars >>

\* The input is one JSON object.
ParseObject ==
    /\ pc = "start"
    /\ \E obj \in { v \in feed : v.k = "obj" } : Accumulate(obj.f)
    /\ format' = "object"
    /\ pc' = "accumulated"
    /\ UNCHANGED << feed, cfg, count, sawBad, hasValidJSON, outputVars, err, mergeVars, streamVars, nameVars >>

\* The input is one JSON value that is neither an object nor an array.
ParseOther ==
    /\ pc = "start"
    /\ Fail("unsupported JSON structure")
    /\ UNCHANGED << inputVars, stats, processed, outputVars, mergeVars, streamVars, nameVars >>

\* The input is one JSON array; its elements follow.
ParseArray ==
    /\ pc = "start"
    /\ format' = "array"
    /\ pc' = "array"
    /\ UNCHANGED << feed, cfg, count, sawBad, hasValidJSON, stats, processed,
                    outputVars, err, mergeVars, streamVars, nameVars >>

\* One turn of the loop over the array: an element that is an object is
\* accumulated, any other is passed over.
ArrayItem ==
    /\ pc = "array"
    /\ count < MaxSamples
    /\ \E item \in feed \ { Malformed } :
          IF item.k = "obj" THEN Accumulate(item.f)
          ELSE UNCHANGED << stats, processed >>
    /\ count' = count + 1
    /\ UNCHANGED << feed, pc, cfg, format, sawBad, hasValidJSON, outputVars, err,
                    mergeVars, streamVars, nameVars >>

ArrayEnd ==
    /\ pc = "array"
    /\ pc' = "accumulated"
    /\ UNCHANGED << inputVars, stats, processed, outputVars, err, mergeVars, streamVars, nameVars >>

\* The input is not one JSON value: the line-delimited fallback.
ParseFails ==
    /\ pc = "start"
    /\ format' = "lines"
    /\ pc' = "lines"
    /\ UNCHANGED << feed, cfg, count, sawBad, hasValidJSON, stats, processed,
                    outputVars, err, mergeVars, streamVars, nameVars >>

\* One turn of the loop over the non-blank lines. json.Unmarshal into a
\* map[string]any accepts an object, and accepts null leaving the map nil;
\* it rejects every other value and every line that is not JSON.
Line ==
    /\ pc = "lines"
    /\ count < MaxSamples
    /\ \E line \in feed :
          /\ IF line.k = "obj" THEN Accumulate(line.f)
             ELSE IF line.k = "null" THEN Accumulate(EmptyMap)
             ELSE UNCHANGED << stats, processed >>
          /\ hasValidJSON' = (hasValidJSON \/ line.k \in {"obj", "null"})
          /\ sawBad' = (sawBad \/ line.k = "bad")
    /\ count' = count + 1
    /\ UNCHANGED << feed, pc, cfg, format, outputVars, err, mergeVars, streamVars, nameVars >>

\* The end of the lines. The fallback runs only on an input that is not one
\* JSON value: it has two lines or more, or a line that is not JSON.
LinesEnd ==
    /\ pc = "lines"
    /\ count >= 2 \/ sawBad
    /\ IF hasValidJSON
       THEN pc' = "accumulated" /\ err' = err
       ELSE Fail("error parsing JSON")
    /\ UNCHANGED << inputVars, stats, processed, outputVars, mergeVars, streamVars, nameVars >>

NoObjects ==
    /\ pc = "accumulated"
    /\ stats.TotalLines = 0
    /\ Fail("no valid JSON objects found")
    /\ UNCHANGED << inputVars, stats, processed, outputVars, mergeVars, streamVars, nameVars >>

\* typ := g.buildTypeFromStats(stats)
Resolve ==
    /\ pc = "accumulated"
    /\ stats.TotalLines # 0
    /\ resolved' \in buildTypeFromStats(stats, cfg.FieldOrder)
    /\ typ' = resolved'
    /\ pc' = "resolved"
    /\ UNCHANGED << inputVars, stats, processed, objs, extractedTypes, err, mergeVars, streamVars, nameVars >>

\* g.extractRepeatedStructs(typ), when the flag asks for it.
Extract ==
    /\ pc = "resolved"
    /\ cfg.ExtractStructs
    /\ \E order \in Perms(DOMAIN collectStructSignatures(typ)) :
          LET r == extractRepeatedStructs(typ, order)
          IN  /\ typ' = r.typ
              /\ objs' = r.objs
              /\ extractedTypes' = r.extractedTypes
    /\ pc' = "extracted"
    /\ UNCHANGED << inputVars, stats, processed, resolved, err, mergeVars, streamVars, nameVars >>

\* The rendering and the write of the output, which the model leaves out.
Finish ==
    /\ \/ pc = "resolved" /\ ~cfg.ExtractStructs
       \/ pc = "extracted"
    /\ pc' = "done"
    /\ UNCHANGED << inputVars, stats, processed, outputVars, err, mergeVars, streamVars, nameVars >>

Next ==
    \/ NoInput
    \/ ParseObject
    \/ ParseOther
    \/ ParseArray
    \/ ArrayItem
    \/ ArrayEnd
    \/ ParseFails
    \/ Line
    \/ LinesEnd
    \/ NoObjects
    \/ Resolve
    \/ Extract
    \/ Finish

Spec == Init /\ [][Next]_vars

\* ------------------------------------------------ a merge of two types

\* The kinds a field's type is merged over.
MergeKinds == {"nil", "bool", "float64", "string", "struct", "any"}

\* The children a record of the merge universe may have.
MergeChildLists ==
    { << >>,
      << NewType("P", "string", FALSE, EmptyMap, << >>) >>,
      << NewType("P", "float64", FALSE, EmptyMap, << >>) >>,
      << NewType("Q", "bool", FALSE, EmptyMap, << >>) >>,
      << NewType("P", "nil", FALSE, EmptyMap, << >>) >>,
      << NewType("P", "string", FALSE, EmptyMap, << >>),
         NewType("Q", "bool", FALSE, EmptyMap, << >>) >> }

\* The types of one field F: every kind, bare or nullable, single or
\* repeated, a record with each of the child lists.
MergeTypes ==
    { NewType("F", star \o kind, repeated, EmptyMap, << >>) :
        star \in {"", "*"}, kind \in MergeKinds \ {"struct"}, repeated \in BOOLEAN }
    \cup
    { NewType("F", star \o "struct", repeated, EmptyMap, children) :
        star \in {"", "*"}, repeated \in BOOLEAN, children \in MergeChildLists }

InitMerge ==
    /\ feed = {}
    /\ pc = "merge"
    /\ cfg \in { c \in Configs : c.FieldOrder = "alphabetical" /\ ~c.ExtractStructs }
    /\ InitGenerator
    /\ mA \in MergeTypes
    /\ mB \in MergeTypes
    /\ mAB = NoType
    /\ mBA = NoType
    /\ mC = NoType /\ mL = NoType /\ mR = NoType
    /\ leading = FALSE
    /\ fmtCall = NoCall

\* mA.Merge(mB) on a copy of mA.
MergeAB ==
    /\ pc = "merge"
    /\ mAB = NoType
    /\ mAB' = Merge(mA, mB)
    /\ UNCHANGED << pc, inputVars, stats, processed, outputVars, err, mA, mB, mBA,
                    mC, mL, mR, streamVars, nameVars >>

\* mB.Merge(mA) on a copy of mB.
MergeBA ==
    /\ pc = "merge"
    /\ mBA = NoType
    /\ mBA' = Merge(mB, mA)
    /\ UNCHANGED << pc, inputVars, stats, processed, outputVars, err, mA, mB, mAB,
                    mC, mL, mR, streamVars, nameVars >>

NextMerge ==
    \/ MergeAB
    \/ MergeBA

SpecMerge == InitMerge /\ [][NextMerge]_vars

\* ---------------------------------------------- two merges in a row

\* The types of one field F that are not repeated.
SingleTypes == { t \in MergeTypes : ~t.Repeated }

InitMerge3 ==
    /\ feed = {}
    /\ pc = "merge"
    /\ cfg \in { c \in Configs : c.FieldOrder = "alphabetical" /\ ~c.ExtractStructs }
    /\ InitGenerator
    /\ mA \in SingleTypes
    /\ mB \in SingleTypes
    /\ mC \in SingleTypes
    /\ mAB = NoType /\ mBA = NoType /\ mL = NoType /\ mR = NoType
    /\ leading = FALSE
    /\ fmtCall = NoCall

\* mA.Merge(mB) and then mA.Merge(mC), on a copy of mA.
MergeLeft ==
    /\ pc = "merge"
    /\ mL = NoType
    /\ mL' = Merge(Merge(mA, mB), mC)
    /\ UNCHANGED << pc, inputVars, stats, processed, outputVars, err, mA, mB, mC,
                    mAB, mBA, mR, streamVars, nameVars >>

\* mB.Merge(mC) on a copy of mB and then mA.Merge of it, on a copy of mA.
MergeRight ==
    /\ pc = "merge"
    /\ mR = NoType
    /\ mR' = Merge(mA, Merge(mB, mC))
    /\ UNCHANGED << pc, inputVars, stats, processed, outputVars, err, mA, mB, mC,
                    mAB, mBA, mL, streamVars, nameVars >>

NextMerge3 ==
    \/ MergeLeft
    \/ MergeRight

SpecMerge3 == InitMerge3 /\ [][NextMerge3]_vars

\* ------------------------------------------------------- generateStream

\* The lines and the array elements of a streamed input.
StreamFeed ==
    { JObj(("a" :> JNum(10))),
      JObj(("x" :> JObj(("p" :> JStr("s"))))),
      JNull,
      JNum(10) }

updateBatchSize == 10

Milestones == {10, 100, 1000, 10000, 100000, 1000000}

adaptiveBatchSize(n) ==
    IF n > 100000 THEN 10000
    ELSE IF n > 10000 THEN 1000
    ELSE IF n > 1000 THEN 100
    ELSE updateBatchSize

\* shouldUpdate of generateStream; elapsed is timeSinceUpdate >= updateInterval.
ShouldUpdateLine(lineNum, elapsed) ==
    \/ elapsed
    \/ lineNum % adaptiveBatchSize(lineNum) = 0
    \/ lineNum <= 5
    \/ lineNum \in Milestones

\* shouldUpdate of generateStreamFromArray at index i of n elements.
ShouldUpdateItem(i, n, elapsed) ==
    \/ elapsed
    \/ (i + 1) % adaptiveBatchSize(i) = 0
    \/ i < 5
    \/ (i + 1) \in Milestones
    \/ i = n - 1

InitStream ==
    /\ feed = StreamFeed
    /\ pc = "stream"
    /\ cfg \in { c \in Configs :
                   c.FieldOrder \in {"alphabetical", "encounter"} /\ ~c.ExtractStructs }
    /\ InitGenerator
    /\ leading \in BOOLEAN
    /\ fmtCall = NoCall
    /\ mA = NoType /\ mB = NoType /\ mAB = NoType /\ mBA = NoType
    /\ mC = NoType /\ mL = NoType /\ mR = NoType

\* stats.ProcessJSON(obj, g) with some visiting order of the keys, kept in
\* the history.
StreamAccumulate(data) ==
    \E order \in Perms(DOMAIN data) :
        /\ stats' = ProcessJSON(stats, data, order)
        /\ processed' = BagAdd(processed, data)
        /\ hist' = Append(hist, [data |-> data, order |-> order])

\* displayStreamOutput(output, content, current, total)
DisplayStreamOutput(current, n) ==
    display' = [calls |-> display.calls + 1, current |-> current, total |-> n]

\* The first byte is not '[': the line loop follows. The byte was read
\* through the TeeReader, which wrote it to buffer, and the reader of the
\* loop is firstByte, then buffer, then the rest of the input: the loop
\* reads the first byte twice.
StreamLines ==
    /\ pc = "stream"
    /\ format' = "lines"
    /\ pc' = "slines"
    /\ UNCHANGED << feed, cfg, count, sawBad, hasValidJSON, stats, processed,
                    outputVars, err, mergeVars, streamVars, nameVars >>

\* What the loop reads for a line of the input: the first line of an input
\* whose first byte is no white space has that byte doubled, and no JSON
\* value stays one the decoder accepts.
LineRead(line) == IF count = 0 /\ ~leading THEN Malformed ELSE line

\* One turn of the line loop up to shouldUpdate: lineNum++, and a line
\* that decodes (an object, or null leaving the map nil) is accumulated.
StreamLine ==
    /\ pc = "slines"
    /\ count < MaxStreamLines
    /\ count' = count + 1
    /\ \E line \in feed, elapsed \in BOOLEAN :
          LET read == LineRead(line)
          IN  /\ offered' = IF line.k = "obj" THEN BagAdd(offered, line.f) ELSE offered
              /\ IF read.k \in {"obj", "null"}
                 THEN /\ StreamAccumulate(IF read.k = "obj" THEN read.f ELSE EmptyMap)
                      /\ pc' = IF ShouldUpdateLine(count + 1, elapsed)
                               THEN "supdate" ELSE "slines"
                 ELSE UNCHANGED << pc, stats, processed, hist >>
    /\ UNCHANGED << feed, cfg, format, sawBad, hasValidJSON, outputVars, err,
                    mergeVars, leading, total, shown, display, nameVars >>
\* The update with the statistics started afresh once they are shown.
ProgressResets ==
    /\ pc = "supdate"
    /\ \E t \in buildTypeFromStats(stats, cfg.FieldOrder) :
          IF t # shown
          THEN /\ DisplayStreamOutput(count, stats.TotalLines)
               /\ shown' = t
          ELSE UNCHANGED << shown, display >>
    /\ stats' = NewStructStats
    /\ pc' = "slines"
    /\ UNCHANGED << inputVars, processed, outputVars, err, mergeVars,
                    leading, offered, total, hist, nameVars >>

\* The progressive update of the line loop: the tree so far is built and
\* rendered, and displayed if it differs from the last one displayed.
Progress ==
    /\ pc = "supdate"
    /\ \E t \in buildTypeFromStats(stats, cfg.FieldOrder) :
          IF t # shown
          THEN /\ DisplayStreamOutput(count, stats.TotalLines)
               /\ shown' = t
          ELSE UNCHANGED << shown, display >>
    /\ pc' = "slines"
    /\ UNCHANGED << inputVars, stats, processed, outputVars, err, mergeVars,
                    leading, offered, total, hist, nameVars >>

\* The end of the line loop and the final output.
StreamLinesEnd ==
    /\ pc = "slines"
    /\ IF stats.TotalLines = 0
       THEN /\ Fail("no valid JSON objects found")
            /\ UNCHANGED << resolved, typ, display >>
       ELSE /\ resolved' \in buildTypeFromStats(stats, cfg.FieldOrder)
            /\ typ' = resolved'
            /\ DisplayStreamOutput(stats.TotalLines, stats.TotalLines)
            /\ pc' = "done"
            /\ err' = err
    /\ UNCHANGED << inputVars, stats, processed, objs, extractedTypes, mergeVars,
                    leading, offered, total, shown, hist, nameVars >>

\* The first byte is '[' and the input is one JSON array.
StreamArray ==
    /\ pc = "stream"
    /\ ~leading
    /\ format' = "array"
    /\ total' \in 0..MaxStreamLines
    /\ pc' = "sarray"
    /\ UNCHANGED << feed, cfg, count, sawBad, hasValidJSON, stats, processed,
                    outputVars, err, mergeVars, leading, offered, shown, display, hist,
                    nameVars >>

\* The first byte is '[' and the input is not one JSON array.
StreamArrayFails ==
    /\ pc = "stream"
    /\ ~leading
    /\ format' = "array"
    /\ Fail("error parsing JSON array")
    /\ UNCHANGED << feed, cfg, count, sawBad, hasValidJSON, stats, processed,
                    outputVars, mergeVars, streamVars, nameVars >>

\* One turn of the loop over the array up to shouldUpdate, at index count.
StreamItem ==
    /\ pc = "sarray"
    /\ count < total
    /\ count' = count + 1
    /\ \E item \in feed, elapsed \in BOOLEAN :
          IF item.k = "obj"
          THEN /\ StreamAccumulate(item.f)
               /\ pc' = IF ShouldUpdateItem(count, total, elapsed)
                        THEN "saupdate" ELSE "sarray"
          ELSE UNCHANGED << pc, stats, processed, hist >>
    /\ UNCHANGED << feed, cfg, format, sawBad, hasValidJSON, outputVars, err,
                    mergeVars, leading, offered, total, shown, display, nameVars >>

\* The progressive update of the loop over the array.
ProgressArray ==
    /\ pc = "saupdate"
    /\ \E t \in buildTypeFromStats(stats, cfg.FieldOrder) :
          IF t # shown
          THEN /\ DisplayStreamOutput(count, total)
               /\ shown' = t
          ELSE UNCHANGED << shown, display >>
    /\ pc' = "sarray"
    /\ UNCHANGED << inputVars, stats, processed, outputVars, err, mergeVars,
                    leading, offered, total, hist, nameVars >>

\* The end of the loop over the array and the final output.
StreamArrayEnd ==
    /\ pc = "sarray"
    /\ count = total
    /\ IF stats.TotalLines = 0
       THEN /\ Fail("no valid JSON objects found in array")
            /\ UNCHANGED << resolved, typ, display >>
       ELSE /\ resolved' \in buildTypeFromStats(stats, cfg.FieldOrder)
            /\ typ' = resolved'
            /\ DisplayStreamOutput(total, total)
            /\ pc' = "done"
            /\ err' = err
    /\ UNCHANGED << inputVars, stats, processed, objs, extractedTypes, mergeVars,
                    leading, offered, total, shown, hist, nameVars >>

NextStream ==
    \/ StreamLines
    \/ StreamLine
    \/ Progress
    \/ StreamLinesEnd
    \/ StreamArray
    \/ StreamArrayFails
    \/ StreamItem
    \/ ProgressArray
    \/ StreamArrayEnd

SpecStream == InitStream /\ [][NextStream]_vars

\* --------------------------------------------------- a call of fmtFieldName

\* The longest key given to fmtFieldName.
MaxKeyLen == 3

\* The characters of the keys: letters of both cases (with those of the
\* fix-up "id"), the separator, a digit and a symbol.
KeyChars == {"a", "I", "d", "_", "1", "$"}

RECURSIVE KeysOfLen(_)
KeysOfLen(n) ==
    IF n = 0 THEN {""}
    ELSE { k \o c : k \in KeysOfLen(n - 1), c \in KeyChars }

Keys == UNION { KeysOfLen(n) : n \in 0..MaxKeyLen }

InitName ==
    /\ feed = {}
    /\ pc = "name"
    /\ cfg \in { c \in Configs : c.FieldOrder = "alphabetical" /\ ~c.ExtractStructs }
    /\ InitGenerator
    /\ mA = NoType /\ mB = NoType /\ mAB = NoType /\ mBA = NoType
    /\ mC = NoType /\ mL = NoType /\ mR = NoType
    /\ leading = FALSE
    /\ \E key \in Keys : fmtCall = [key |-> key, returned |-> FALSE, name |-> ""]

\* g.fmtFieldName(key)
FormatName ==
    /\ pc = "name"
    /\ ~fmtCall.returned
    /\ fmtCall' = [fmtCall EXCEPT !.returned = TRUE, !.name = fmtFieldName(fmtCall.key)]
    /\ UNCHANGED << pc, inputVars, stats, processed, outputVars, err, mergeVars,
                    streamVars >>

NextName == FormatName

SpecName == InitName /\ [][NextName]_vars

\* ------------------------------------------- ProcessValue on one field

\* The calls of ProcessValue after the field was filled.
MaxProbeCalls == 4

ProbeKey == "v"

\* The numbers of distinct strings the field is filled with: none, one
\* short of the cap, the cap.
ProbeFills == {0, ValueCap - 1, ValueCap}

\* The values of the calls: a string, a small integer, a number that is no
\* integer, an integer beyond the enum range, a boolean.
ProbeValues == { JStr("s"), JNum(-10), JNum(5), JNum(1010), JBool(TRUE) }

InitProbe ==
    /\ feed = {}
    /\ pc = "probe"
    /\ cfg \in { c \in Configs : c.FieldOrder = "alphabetical" /\ ~c.ExtractStructs }
    /\ InitGenerator
    /\ mA = NoType /\ mB = NoType /\ mAB = NoType /\ mBA = NoType
    /\ mC = NoType /\ mL = NoType /\ mR = NoType
    /\ leading = FALSE
    /\ fmtCall = NoCall

\* stats.ProcessValue(key, value, g) with a string not seen before: the
\* strings are "1", "2", ... in turn.
ProbeFill ==
    /\ pc = "probe"
    /\ count < ValueCap
    /\ stats' = ProcessValue(stats, ProbeKey, JStr(IntToStr(count + 1)))
    /\ count' = count + 1
    /\ UNCHANGED << pc, feed, cfg, format, sawBad, hasValidJSON, processed,
                    outputVars, err, mergeVars, streamVars, nameVars >>

\* stats.ProcessValue(key, value, g) with a scalar value, once the field
\* is filled.
ProbeCall ==
    /\ pc \in {"probe", "probing"}
    /\ pc = "probe" => count \in ProbeFills
    /\ total < MaxProbeCalls
    /\ \E value \in ProbeValues : stats' = ProcessValue(stats, ProbeKey, value)
    /\ total' = total + 1
    /\ pc' = "probing"
    /\ UNCHANGED << inputVars, processed, outputVars, err, mergeVars, leading,
                    offered, shown, display, hist, nameVars >>

NextProbe == ProbeFill \/ ProbeCall

SpecProbe == InitProbe /\ [][NextProbe]_vars

\* ----------------------------------- extractRepeatedStructs on a given tree

Leaf(name) == NewType(name, "float64", FALSE, EmptyMap, << >>)

Record(name, children) == NewType(name, "struct", FALSE, EmptyMap, children)

FieldsPQR == << Leaf("P"), Leaf("Q"), Leaf("R") >>

\* The nodes a field of the root may be: a scalar; a record of three
\* fields, nullable, and repeated; a nullable record of one field; two
\* records of one signature that hold a record each, of different fields;
\* two records whose fields have the prefix "St".
NodeShapes(name) ==
    { Leaf(name),
      Record(name, FieldsPQR),
      NewType(name, "*struct", FALSE, EmptyMap, FieldsPQR),
      NewType(name, "struct", TRUE, EmptyMap, FieldsPQR),
      NewType(name, "*struct", FALSE, EmptyMap, << Leaf("P") >>),
      Record(name, << Leaf("P"), Leaf("Q"), Record("Inner", FieldsPQR) >>),
      Record(name, << Leaf("P"), Leaf("Q"), Record("Inner", << Leaf("A") >>) >>),
      Record(name, << Leaf("StA"), Leaf("StB"), Leaf("StC") >>),
      Record(name, << Leaf("StA"), Leaf("StB"), Leaf("StD") >>) }

\* The most fields the root of a given tree has.
MaxRootFields == 2

RootFieldNames == << "W", "X", "Y", "Z" >>

\* A root whose fields are those of the record it holds at R, as the
\* sample {"p":1,"q":2,"r":{"p":1,"q":2,"r":{}}} resolves (tags left out).
RootLikeNested ==
    Record(TypeName, << Leaf("P"), Leaf("Q"),
                        Record("R", << Leaf("P"), Leaf("Q"), Record("R", << >>) >>) >>)

\* Two records of the fields StA, StB, StC and two of StA, StB, StD, as
\* samples with the keys "st_a", "st_b", "st_c" and "st_d" resolve (tags
\* left out).
TwoStatShapes ==
    Record(TypeName,
           << Record("W", << Leaf("StA"), Leaf("StB"), Leaf("StC") >>),
              Record("X", << Leaf("StA"), Leaf("StB"), Leaf("StC") >>),
              Record("Y", << Leaf("StA"), Leaf("StB"), Leaf("StD") >>),
              Record("Z", << Leaf("StA"), Leaf("StB"), Leaf("StD") >>) >>)

\* The trees extractRepeatedStructs is given.
ExtractTrees ==
    { RootLikeNested, TwoStatShapes } \cup
    UNION { { Record(TypeName, children) :
                children \in { cs \in [1..n -> UNION { NodeShapes(RootFieldNames[i]) : i \in 1..n }] :
                                 \A i \in 1..n : cs[i].Name = RootFieldNames[i] } }
            : n \in 1..MaxRootFields }

InitExtract ==
    /\ feed = {}
    /\ pc = "resolved"
    /\ cfg \in { c \in Configs : c.FieldOrder = "alphabetical" /\ c.ExtractStructs }
    /\ count = 0
    /\ format = ""
    /\ sawBad = FALSE
    /\ hasValidJSON = FALSE
    /\ stats = NewStructStats
    /\ processed = EmptyMap
    /\ resolved \in ExtractTrees
    /\ typ = resolved
    /\ objs = EmptyMap
    /\ extractedTypes = EmptyMap
    /\ err = ""
    /\ total = 0
    /\ offered = EmptyMap
    /\ shown = NoType
    /\ display = [calls |-> 0, current |-> 0, total |-> 0]
    /\ hist = << >>
    /\ mA = NoType /\ mB = NoType /\ mAB = NoType /\ mBA = NoType
    /\ mC = NoType /\ mL = NoType /\ mR = NoType
    /\ leading = FALSE
    /\ fmtCall = NoCall

NextExtract == Extract

SpecExtract == InitExtract /\ [][NextExtract]_vars

\* ------------------------------------------------------------- the claims

Children(t) == { t.Children[i] : i \in 1..Len(t.Children) }

ChildNamed(t, name) == CHOOSE c \in Children(t) : c.Name = name

\* buildTypeFromStats has returned: resolved is its result for stats.
Resolved == pc \in {"resolved", "extracted", "done"}

NonNilTypes(f) == DOMAIN f.Types \ {"nil"}

\* C1: for fixed statistics and a fixed configuration the resolver returns
\* one tree: every run of buildTypeFromStats on the statistics gives the
\* tree this run gave.
C1_Deterministic ==
    Resolved => buildTypeFromStats(stats, cfg.FieldOrder) = { resolved }

\* The counters of the statistics: TotalLines and, per field, TotalCount and
\* the per-type counts.
Counts(s) ==
    [TotalLines |-> s.TotalLines,
     Fields     |-> [n \in DOMAIN s.Fields |->
                        [TotalCount |-> s.Fields[n].TotalCount,
                         Types      |-> s.Fields[n].Types]]]

BagRemove(bag, x) ==
    IF bag[x] = 1 THEN [y \in DOMAIN bag \ {x} |-> bag[y]]
    ELSE [bag EXCEPT ![x] = @ - 1]

\* The statistics of the samples of a bag accumulated in one fixed order,
\* the keys of each sample in one fixed order.
RECURSIVE CanonicalStats(_)
CanonicalStats(bag) ==
    IF DOMAIN bag = {} THEN NewStructStats
    ELSE LET data == CHOOSE x \in DOMAIN bag : TRUE
         IN  ProcessJSON(CanonicalStats(BagRemove(bag, data)), data,
                         CHOOSE o \in Perms(DOMAIN data) : TRUE)

\* C2: the counters do not depend on the order of the samples: whatever
\* order this run accumulated its samples in, TotalLines, every TotalCount
\* and every per-type count are those of the same samples accumulated in
\* the fixed order.
C2_OrderIndependent == Counts(stats) = Counts(CanonicalStats(processed))

\* Two samples or more were accumulated, in an order that is not the fixed
\* one (the ordered parts of the statistics differ).
C2_Witness ==
    /\ pc = "accumulated"
    /\ stats.TotalLines >= 2
    /\ Cardinality(DOMAIN processed) >= 2
    /\ stats # CanonicalStats(processed)

\* The example: the two lines {"a":1,"b":null} and {"a":2.5,"b":"x"}.
C3_Example ==
    /\ format = "lines"
    /\ count = 2
    /\ ~sawBad
    /\ DOMAIN stats.Fields = {"A", "B"}
    /\ stats.Fields["A"].NumericVals = << 10, 25 >>
    /\ stats.Fields["B"].Types = ("nil" :> 1) @@ ("string" :> 1)

\* C3: a field observed as null and as a string, never as an array, is a
\* nullable string; a field observed only as null is dynamic; the example
\* resolves to A float64 and B nullable string.
C3_Nullability ==
    Resolved =>
        /\ \A c \in Children(resolved) :
              LET f == stats.Fields[c.Name]
              IN  /\ (DOMAIN f.IsArray = {} /\ DOMAIN f.Types = {"nil", "string"})
                        => (c.Type = "*string" /\ ~c.Repeated)
                  /\ (DOMAIN f.IsArray = {} /\ DOMAIN f.Types = {"nil"})
                        => c.Type = "any"
        /\ C3_Example =>
              /\ ChildNamed(resolved, "A").Type = "float64"
              /\ ChildNamed(resolved, "B").Type = "*string"

C3_Witness == pc = "resolved" /\ C3_Example

\* C4: a field with a non-null observation gets the non-null type of the
\* highest count, as the field's type or, for a field observed as arrays,
\* as the element type.
C4_Dominant ==
    Resolved =>
        \A c \in Children(resolved) :
            LET f == stats.Fields[c.Name]
                k == TrimStar(c.Type)
            IN  NonNilTypes(f) # {} =>
                    /\ k \in NonNilTypes(f)
                    /\ \A t \in NonNilTypes(f) : f.Types[t] <= f.Types[k]

\* Some sample has the field as a value that is not an array.
ObservedBare(name) ==
    \E data \in DOMAIN processed : \E key \in DOMAIN data :
        fmtFieldName(key) = name /\ data[key].k # "arr"

\* C5: a field is repeated only if every observation of it was an array.
C5_RepeatedOnlyArrays ==
    Resolved =>
        \A c \in Children(resolved) : c.Repeated => ~ObservedBare(c.Name)

\* The record is the one non-null type of the highest count.
RecordDominant(f) ==
    /\ "struct" \in DOMAIN f.Types
    /\ \A t \in NonNilTypes(f) \ {"struct"} : f.Types[t] < f.Types["struct"]

\* The fields of the nested objects observed at a field.
NestedFieldNames(f) ==
    { fmtFieldName(k) :
        k \in UNION { DOMAIN f.NestedObjs[i].f : i \in 1..Len(f.NestedObjs) } }

\* C6: a field whose dominant non-null type is the record, bare or in
\* arrays, null observed or not, has as children the fields of all the
\* nested objects observed at it.
C6_NestedUnion ==
    Resolved =>
        \A c \in Children(resolved) :
            LET f == stats.Fields[c.Name]
            IN  RecordDominant(f) =>
                    { d.Name : d \in Children(c) } = NestedFieldNames(f)

\* The example: the array [{"x":{"p":1,"q":2,"r":3}},{"x":{"p":9,"q":8,"r":7}}]
\* with extraction asked for.
C7_Input ==
    /\ format = "array"
    /\ count = 2
    /\ cfg.ExtractStructs
    /\ DOMAIN stats.Fields = {"X"}
    /\ stats.Fields["X"].NestedObjs = << ObjPQR1, ObjPQR9 >>

\* C7 as the specification has it: the example yields exactly one shared
\* definition, of three fields, and X refers to it and has no inline copy.
C7_OneSharedDefinition ==
    (pc = "extracted" /\ C7_Input) =>
        /\ Cardinality(DOMAIN extractedTypes) = 1
        /\ \A name \in DOMAIN extractedTypes :
              /\ Len(extractedTypes[name].Children) = 3
              /\ ChildNamed(typ, "X").ExtractedTypeName = name
              /\ ChildNamed(typ, "X").Children = << >>

\* C7 as the program has it: the two samples are one field X of the
\* resolved tree, a record that occurs once; nothing is extracted and X
\* keeps its three fields inline.
C7_OneInlineRecord ==
    (pc = "extracted" /\ C7_Input) =>
        /\ extractedTypes = EmptyMap
        /\ typ = resolved
        /\ Len(typ.Children) = 1
        /\ LET x == ChildNamed(typ, "X")
           IN  /\ x.Type = "struct"
               /\ ~x.Repeated
               /\ x.ExtractedTypeName = ""
               /\ { << d.Name, d.Type >> : d \in Children(x) } =
                     { << "P", "float64" >>, << "Q", "float64" >>, << "R", "float64" >> }

C7_Witness == pc = "extracted" /\ C7_Input

\* C8: a field observed as a record in some samples and as null in the
\* others, at one path, is extracted: it becomes a nullable reference to a
\* shared definition.
C8_NullableExtracted ==
    pc = "extracted" =>
        \A c \in Children(resolved) :
            LET f == stats.Fields[c.Name]
            IN  (/\ DOMAIN f.Types = {"nil", "struct"}
                 /\ DOMAIN f.IsArray = {}
                 /\ NestedFieldNames(f) # {})
                => LET n == ChildNamed(typ, c.Name)
                   IN  /\ HasPrefix(n.ExtractedTypeName, "*")
                       /\ TrimStar(n.ExtractedTypeName) \in DOMAIN extractedTypes
                       /\ n.Type = n.ExtractedTypeName
                       /\ n.Children = << >>

\* The field names, kinds and repetition of a record's children.
Shape(t) == { << c.Name, c.Type, c.Repeated >> : c \in Children(t) }

\* The pairs of different paths of the resolved tree that hold non-nullable
\* records of three fields or more of one shape.
SameShapePairs ==
    LET paths == { PreOrder(resolved, << >>)[i] :
                     i \in 1..Len(PreOrder(resolved, << >>)) }
    IN  { pq \in paths \X paths :
            /\ pq[1] # pq[2]
            /\ NodeAt(resolved, pq[1]).Type = "struct"
            /\ NodeAt(resolved, pq[2]).Type = "struct"
            /\ Len(NodeAt(resolved, pq[1]).Children) >= 3
            /\ Shape(NodeAt(resolved, pq[1])) = Shape(NodeAt(resolved, pq[2])) }

C10_MergeCommutes ==
    (mAB # NoType /\ mBA # NoType) =>
        /\ mAB.Type = mBA.Type
        /\ mAB.Repeated = mBA.Repeated
        /\ { c.Name : c \in Children(mAB) } = { c.Name : c \in Children(mBA) }

C10_Witness == mAB # NoType /\ mBA # NoType /\ mA # mB

\* C11: merging is associative: (mA merged with mB) merged with mC and mA
\* merged with (mB merged with mC) have the same kind, the same nullable
\* marker and the same set of child fields.
C11_MergeAssociates ==
    (mL # NoType /\ mR # NoType) =>
        /\ mL.Type = mR.Type
        /\ { c.Name : c \in Children(mL) } = { c.Name : c \in Children(mR) }

\* The kind of a type without its nullable marker.
Kind(t) == TrimStar(t.Type)

\* C12: two types of different kinds, neither the null placeholder, merge
\* into the dynamic kind "any"; array-ness is part of the kind, so an array
\* of T and a bare T are a mismatch too.
C12_MismatchIsAny ==
    (/\ mAB # NoType
     /\ Kind(mA) # "nil" /\ Kind(mB) # "nil"
     /\ (Kind(mA) # Kind(mB) \/ mA.Repeated # mB.Repeated))
    => Kind(mAB) = "any"

Names(children) == [i \in 1..Len(children) |-> children[i].Name]

\* The names of a sequence that are not in S, in their order.
RECURSIVE NamesNotIn(_, _)
NamesNotIn(names, S) ==
    IF Len(names) = 0 THEN << >>
    ELSE IF Head(names) \in S THEN NamesNotIn(Tail(names), S)
    ELSE << Head(names) >> \o NamesNotIn(Tail(names), S)

\* The kind two observations of one scalar field merge into.
MergedScalar(a, b) ==
    IF a = b THEN a
    ELSE IF a = "nil" THEN "*" \o b
    ELSE IF b = "nil" THEN "*" \o a
    ELSE "any"

\* C13: the merge of two records has the fields of mA in their order, then
\* the fields only mB has in mB's order; a field of one operand only is
\* as that operand has it, a field of both is the merge of the two.
C13_RecordMerge ==
    (mAB # NoType /\ Kind(mA) = "struct" /\ Kind(mB) = "struct") =>
        LET namesA == { c.Name : c \in Children(mA) }
            namesB == { c.Name : c \in Children(mB) }
        IN  /\ Names(mAB.Children) =
                  Names(mA.Children) \o NamesNotIn(Names(mB.Children), namesA)
            /\ { c.Name : c \in Children(mAB) } = namesA \cup namesB
            /\ \A c \in Children(mAB) :
                  /\ (c.Name \in namesA \ namesB) => c = ChildNamed(mA, c.Name)
                  /\ (c.Name \in namesB \ namesA) => c = ChildNamed(mB, c.Name)
                  /\ (c.Name \in namesA \cap namesB) =>
                        c.Type = MergedScalar(ChildNamed(mA, c.Name).Type,
                                              ChildNamed(mB, c.Name).Type)

\* Two records were merged: mB has a field mA has not, and one that mA has
\* with another kind.
C13_Witness ==
    /\ mAB # NoType
    /\ Kind(mA) = "struct" /\ Kind(mB) = "struct"
    /\ \E c \in Children(mB) : \A d \in Children(mA) : d.Name # c.Name
    /\ \E c \in Children(mB) : \E d \in Children(mA) :
          d.Name = c.Name /\ d.Type # c.Type

\* C14: the empty array makes generate fail with no tree built; the empty
\* object makes it succeed with a root record of no fields.
C14_EmptyInputs ==
    /\ (format = "array" /\ count = 0 /\ pc # "array") =>
          /\ pc \in {"accumulated", "failed"}
          /\ stats.TotalLines = 0
          /\ typ = NoType
          /\ pc = "failed" => err = "no valid JSON objects found"
    /\ (format = "object" /\ processed = (EmptyMap :> 1)) =>
          /\ pc # "failed"
          /\ err = ""
          /\ Resolved =>
                /\ resolved.Name = TypeName
                /\ resolved.Type = "struct"
                /\ resolved.Children = << >>

\* generate has resolved the empty object.
C14_Witness ==
    pc = "done" /\ format = "object" /\ processed = (EmptyMap :> 1)

\* C15: in line-delimited input a line that is no JSON object is passed
\* over and leaves the statistics as they were, and the run fails exactly
\* when no line gave a sample. With no empty object among the lines, a
\* sample without keys is a line that is no object.
C15_SkipNonObjects ==
    (format = "lines" /\ JObj(EmptyMap) \notin feed) =>
        /\ EmptyMap \notin DOMAIN processed
        /\ pc \in {"resolved", "extracted", "done"} =>
              \E data \in DOMAIN processed : data # EmptyMap
        /\ pc = "failed" => stats.TotalLines = 0

\* A Go identifier: not empty, a letter or "_" first, then letters, digits
\* and "_".
ValidIdentifier(s) ==
    /\ Len(s) > 0
    /\ IsLetter(CharAt(s, 1)) \/ CharAt(s, 1) = "_"
    /\ \A i \in 2..Len(s) :
          IsLetter(CharAt(s, i)) \/ IsDigit(CharAt(s, i)) \/ CharAt(s, i) = "_"

\* C16: fmtFieldName returns a valid identifier for every key, the empty
\* key and the keys of underscores or of symbols only among them; a key of
\* symbols only gives underscores, one for each symbol.
C16_ValidIdentifier ==
    fmtCall.returned =>
        /\ ValidIdentifier(fmtCall.name)
        /\ (Len(fmtCall.key) > 0
            /\ \A i \in 1..Len(fmtCall.key) : CharAt(fmtCall.key, i) = "$")
           => (/\ Len(fmtCall.name) = Len(fmtCall.key)
               /\ \A i \in 1..Len(fmtCall.name) : CharAt(fmtCall.name, i) = "_")

\* The place of a name in a sequence of names.
IndexIn(names, name) == CHOOSE i \in 1..Len(names) : names[i] = name

\* The field a comes before the field b under the strategy.
ComesBefore(st, mode, a, b) ==
    LET ca == st.Fields[a].TotalCount
        cb == st.Fields[b].TotalCount
        ia == IndexIn(st.FieldOrder, a)
        ib == IndexIn(st.FieldOrder, b)
    IN  IF mode = "encounter" THEN ia < ib
        ELSE IF mode = "common-first" THEN ca > cb \/ (ca = cb /\ ia < ib)
        ELSE IF mode = "rare-first" THEN ca < cb \/ (ca = cb /\ ia < ib)
        ELSE StrLess(ToLower(st.Fields[a].JsonName), ToLower(st.Fields[b].JsonName))

\* The children of t are the fields of st in the order of the strategy,
\* and so are, level by level, the children of every record below it, for
\* statistics its nested objects accumulate to.
RECURSIVE OrderedAtEveryLevel(_, _, _)
OrderedAtEveryLevel(t, st, mode) ==
    /\ { c.Name : c \in Children(t) } = DOMAIN st.Fields
    /\ \A i, j \in 1..Len(t.Children) :
          i < j => ComesBefore(st, mode, t.Children[i].Name, t.Children[j].Name)
    /\ \A c \in Children(t) :
          c.Children # << >> =>
              \E ns \in NestedStats({NewStructStats}, st.Fields[c.Name].NestedObjs) :
                  OrderedAtEveryLevel(c, ns, mode)

C18_ProbeBounded ==
    \A name \in DOMAIN stats.Fields :
        /\ Cardinality(DOMAIN stats.Fields[name].Values) <= ValueCap
        /\ Len(stats.Fields[name].ValueOrder) <= ValueCap

\* The statistics the recorded ProcessJSON calls accumulate, one after
\* the other, whatever was shown in between.
RECURSIVE Replay(_, _)
Replay(s, h) ==
    IF Len(h) = 0 THEN s
    ELSE Replay(ProcessJSON(s, Head(h).data, Head(h).order), Tail(h))

\* C19: the progressive updates of generateStream and
\* generateStreamFromArray only read the statistics: at every point stats
\* is what the samples accumulated so far make it, whichever updates were
\* performed or skipped, and the final tree is a tree of those statistics.
C19_PureRead ==
    (format \in {"lines", "array"} /\ pc # "failed") =>
        /\ stats = Replay(NewStructStats, hist)
        /\ pc = "done" =>
              resolved \in buildTypeFromStats(Replay(NewStructStats, hist), cfg.FieldOrder)

\* A run of six lines that ended with an update performed earlier and the
\* updates after it skipped: what was shown last is no tree of the final
\* statistics.
C19_Witness ==
    /\ pc = "done"
    /\ format = "lines"
    /\ count = MaxStreamLines
    /\ shown # NoType
    /\ shown \notin buildTypeFromStats(stats, cfg.FieldOrder)
    /\ display.calls >= 2

\* The sum of the numbers a map holds.
RECURSIVE SumOf(_)
SumOf(m) ==
    IF DOMAIN m = {} THEN 0
    ELSE LET k == CHOOSE x \in DOMAIN m : TRUE
         IN  m[k] + SumOf([y \in DOMAIN m \ {k} |-> m[y]])

\* C20: after every completed ProcessJSON call FieldOrder lists the keys of
\* Fields, each once and nothing else, TotalLines is the number of
\* ProcessJSON calls, and the TotalCount of every field is the sum of its
\* per-type counts, so at least each of them.
C20_WellFormed ==
    /\ { stats.FieldOrder[i] : i \in 1..Len(stats.FieldOrder) } = DOMAIN stats.Fields
    /\ \A i, j \in 1..Len(stats.FieldOrder) :
          stats.FieldOrder[i] = stats.FieldOrder[j] => i = j
    /\ stats.TotalLines = SumOf(processed)
    /\ \A n \in DOMAIN stats.Fields :
          /\ stats.Fields[n].TotalCount = SumOf(stats.Fields[n].Types)
          /\ \A ty \in DOMAIN stats.Fields[n].Types :
                stats.Fields[n].TotalCount >= stats.Fields[n].Types[ty]

\* Three samples were accumulated, with two fields or more, one of them
\* seen with two kinds of value and in more than one sample.
C20_Witness ==
    /\ pc = "accumulated"
    /\ stats.TotalLines = MaxSamples
    /\ Len(stats.FieldOrder) >= 2
    /\ \E n \in DOMAIN stats.Fields :
          /\ Cardinality(DOMAIN stats.Fields[n].Types) >= 2
          /\ stats.Fields[n].TotalCount >= 2

\* The nodes of a tree, the root included.
RECURSIVE NodesOf(_)
NodesOf(t) == { t } \cup UNION { NodesOf(c) : c \in Children(t) }

\* The nodes reachable from the root after extraction and the nodes of the
\* shared definitions.
EmittedNodes ==
    NodesOf(typ) \cup UNION { NodesOf(extractedTypes[n]) : n \in DOMAIN extractedTypes }

\* C21: after extractRepeatedStructs no node of the root's tree or of a
\* shared definition has both inline children and a reference to a shared
\* definition, and a node rewritten to a reference has no children and has
\* the reference as its kind.
C21_ChildrenOrReference ==
    pc = "extracted" =>
        /\ \A n \in EmittedNodes :
              n.ExtractedTypeName # "" => (n.Children = << >> /\ n.Type = n.ExtractedTypeName)
        /\ \A p \in DOMAIN objs :
              objs[p].ExtractedTypeName # "" => objs[p].Children = << >>

\* A shared definition was emitted that holds a node rewritten to a
\* reference, and the root holds a reference too.
C21_Witness ==
    /\ pc = "extracted"
    /\ \E c \in Children(typ) : c.ExtractedTypeName # ""
    /\ \E n \in DOMAIN extractedTypes :
          \E c \in Children(extractedTypes[n]) : c.ExtractedTypeName # ""

\* The paths of the nodes of the tree given to extractRepeatedStructs.
PathsOf(t) == { PreOrder(t, << >>)[i] : i \in 1..Len(PreOrder(t, << >>)) }

\* The members of a signature group.
Members(structMap, sig) == { structMap[sig][i] : i \in 1..Len(structMap[sig]) }

\* The nodes of the given tree that are nullable records with children.
NullableRecords ==
    { p \in PathsOf(resolved) :
        NodeAt(resolved, p).Type = "*struct" /\ NodeAt(resolved, p).Children # << >> }

FromSingleSample(t) ==
    \A n \in NodesOf(t) :
        /\ ~HasPrefix(n.Type, "*")
        /\ n.Type # "struct" => n.Children = << >>

\* C24: a merge of types built from single samples leaves children under
\* records only: every node whose kind is not struct has no children.
C24_OnlyRecordsCarryChildren ==
    (mAB # NoType /\ FromSingleSample(mA) /\ FromSingleSample(mB)) =>
        \A n \in NodesOf(mAB) : Kind(n) # "struct" => n.Children = << >>

\* The nodes of the given tree that extraction rewrote to a reference.
Rewritten == { p \in PathsOf(resolved) : objs[p].ExtractedTypeName # "" }

\* The signature groups of the given tree with two members or more.
RepeatedGroups ==
    { sig \in DOMAIN collectStructSignatures(resolved) :
        Len(collectStructSignatures(resolved)[sig]) > 1 }

\* C23: two groups extracted in one run have different definition names:
\* rewritten nodes of different signatures refer to different definitions,
\* and, in a tree without nullable records, there are as many definitions
\* as groups of two members or more.
C23_UniqueNames ==
    pc = "extracted" =>
        /\ \A p, q \in Rewritten :
              getStructSignature(NodeAt(resolved, p)) # getStructSignature(NodeAt(resolved, q))
                  => TrimStar(objs[p].ExtractedTypeName) # TrimStar(objs[q].ExtractedTypeName)
        /\ NullableRecords = {} =>
              Cardinality(DOMAIN extractedTypes) = Cardinality(RepeatedGroups)

\* The fields of a record at every depth: name, kind, repetition and the
\* fields below.
RECURSIVE DeepShape(_)
DeepShape(t) == { << c.Name, c.Type, c.Repeated, DeepShape(c) >> : c \in Children(t) }

\* C25: the members of one signature group have the same fields at every
\* depth: the same names, kinds and repetition, and the same fields in
\* their nested records.
C25_GroupedAlike ==
    pc = "extracted" =>
        \A sig \in DOMAIN collectStructSignatures(resolved) :
            \A p, q \in Members(collectStructSignatures(resolved), sig) :
                DeepShape(NodeAt(resolved, p)) = DeepShape(NodeAt(resolved, q))

\* The definitions a node of a tree refers to.
ReferencesOf(t) ==
    { TrimStar(n.ExtractedTypeName) : n \in { m \in NodesOf(t) : m.ExtractedTypeName # "" } }

\* C26: the rewritten tree and the shared definitions are those of every
\* other order of the signature groups, and every definition is referred to
\* by a node of the root's tree or of another definition.
C26_OrderIndependent ==
    pc = "extracted" =>
        /\ \A r \in extractRepeatedStructsAny(resolved) :
              r.typ = typ /\ r.extractedTypes = extractedTypes
        /\ \A name \in DOMAIN extractedTypes :
              \/ name \in ReferencesOf(typ)
              \/ \E other \in DOMAIN extractedTypes \ {name} :
                    name \in ReferencesOf(extractedTypes[other])

\* C27: extraction leaves the root a record: its kind is struct, it has no
\* reference, and it has the fields it had.
C27_RootStays ==
    pc = "extracted" =>
        /\ typ.Type = "struct"
        /\ typ.ExtractedTypeName = ""
        /\ [i \in 1..Len(typ.Children) |-> typ.Children[i].Name] =
              [i \in 1..Len(resolved.Children) |-> resolved.Children[i].Name]

\* C28: in the line loop of generateStream every line of the input that is
\* a JSON object, the first line too, was passed to ProcessJSON once:
\* TotalLines is the number of those lines and the counters are those of
\* the same lines accumulated without streaming.
C28_EveryLineOnce ==
    (format = "lines" /\ pc \in {"slines", "supdate", "done"}) =>
        /\ stats.TotalLines = SumOf(offered)
        /\ \A data \in DOMAIN offered :
              data \in DOMAIN processed /\ processed[data] = offered[data]
        /\ Counts(stats) = Counts(CanonicalStats(offered))

\* C29: no field is counted more often than there are samples: the
\* TotalCount of every field is at most TotalLines, keys that normalize to
\* one field name included.
C29_CountBounded ==
    \A n \in DOMAIN stats.Fields : stats.Fields[n].TotalCount <= stats.TotalLines

\* C30: at every call of displayStreamOutput the current count it is given
\* is at most the total count it is given.
C30_CurrentAtMostTotal ==
    display.calls > 0 => display.current <= display.total

====
